---- MODULE Spec2Model ----
(***************************************************************************)
(* A model of skfem.element.element_global.ElementGlobal: the power basis *)
(* (_pbasis_create, _pbasis_init), the generalized Vandermonde matrix     *)
(* (_eval_dofs), and the cached evaluator (gbasis).                        *)
(*                                                                         *)
(* Conventions.  A Python None is the empty tuple and a present value x is *)
(* the one-element tuple <<x>>.  Python and numpy indices are 0-based, and *)
(* are shifted by one when a TLA+ sequence is indexed.  Floating point     *)
(* numbers are modelled by exact fractions <<numerator, denominator>> in   *)
(* lowest terms; the integer constants of _pbasis_create are numpy int64   *)
(* values and keep their width (eight limbs of eight bits, two's           *)
(* complement, least significant limb first).                              *)
(***************************************************************************)
EXTENDS Integers, Sequences, FiniteSets, TLC

VARIABLES
    derivatives,  \* class attribute ElementGlobal.derivatives of the instance
    V,            \* self.V: None, or the cached inverse Vandermonde matrices
    pbasis,       \* self._pbasis: None (attribute absent), or the table
    call,         \* the arguments of the latest call
    outcome,      \* how the latest call ended: "none", "ok", or the exception
    result,       \* what the latest call returned (None if it raised)
    gdofCalls,    \* number of gdof invocations made by the latest call
    fillCall,     \* history: the arguments of the call that populated self.V
    nfail,        \* history: number of consecutive failed cache fills (capped)
    th            \* the threads of the concurrent specification

vars == <<derivatives, V, pbasis, call, outcome, result, gdofCalls, fillCall,
          nfail, th>>

None == <<>>

Some(x) == <<x>>

(* A Python list or numpy array given by a comprehension, and a dict given *)
(* by one.  They are the identity: TLC evaluates a function constructor at *)
(* every application, and the concatenation makes it a value once.         *)
List(f) == f \o <<>>

(* Body applied to the value of x: a local variable of the code.  TLC      *)
(* evaluates x once here, and at every use when x is an argument.          *)
Let(x, Body(_)) == CHOOSE r \in {Body(u) : u \in {x}} : TRUE

Dict(f) == f @@ <<>>

----------------------------------------------------------------------------
(* Bounds of the model *)

MaxExp == 21

MaxDx == 21

MaxExp2 == 2

MaxDx2 == 2

MaxMaxdeg == 4

MaxNdiff == 3

MaxDeriv == 3

NThreads == 2

----------------------------------------------------------------------------
(* Exact fractions, standing for the floating point numbers of numpy *)

Abs(n) == IF n < 0 THEN -n ELSE n

RECURSIVE GCD(_, _)
GCD(a, b) == IF b = 0 THEN a ELSE GCD(b, a % b)

Frac(n, d) ==
    LET g == GCD(Abs(n), Abs(d))
        s == IF d < 0 THEN -1 ELSE 1
    IN  <<(s * n) \div g, (s * d) \div g>>

FInt(n) == <<n, 1>>

FAdd(a, b) == Frac(a[1] * b[2] + b[1] * a[2], a[2] * b[2])

FMul(a, b) == Frac(a[1] * b[1], a[2] * b[2])

RECURSIVE Pow(_, _)
Pow(x, n) == IF n = 0 THEN 1 ELSE x * Pow(x, n - 1)

Max(a, b) == IF a >= b THEN a ELSE b

----------------------------------------------------------------------------
(* numpy int64 arithmetic.  The loop variable l of _pbasis_create comes    *)
(* from np.arange and is an int64, so every product cx *= i - dx + l and   *)
(* cx * cy is an int64 product, which wraps modulo 2^64.                   *)

LimbBase == 256

Int64Limbs == 8

RECURSIVE ColSum(_, _, _, _)
ColSum(a, b, k, n) ==
    IF n > k THEN 0
    ELSE (IF n <= Len(a) /\ k - n + 1 <= Len(b) THEN a[n] * b[k - n + 1] ELSE 0)
         + ColSum(a, b, k, n + 1)

RECURSIVE Carry(_, _, _)
Carry(cols, idx, c) ==
    IF idx > Len(cols) THEN <<>>
    ELSE <<(cols[idx] + c) % LimbBase>>
         \o Carry(cols, idx + 1, (cols[idx] + c) \div LimbBase)

(* the full product of two unsigned limb sequences *)
LimbMul(a, b) ==
    Carry(List([k \in 1..(Len(a) + Len(b)) |-> ColSum(a, b, k, 1)]), 1, 0)

RECURSIVE ToLimbs(_, _)
ToLimbs(n, len) ==
    IF len = 0 THEN <<>> ELSE <<n % LimbBase>> \o ToLimbs(n \div LimbBase, len - 1)

Neg64(a) ==
    Carry(List([k \in 1..Int64Limbs |->
                   (LimbBase - 1 - a[k]) + (IF k = 1 THEN 1 ELSE 0)]), 1, 0)

(* a small Python int converted to int64 *)
Int64(n) ==
    IF n >= 0 THEN ToLimbs(n, Int64Limbs) ELSE Neg64(ToLimbs(-n, Int64Limbs))

(* int64 * int64 -> int64: the low 64 bits of the product *)
Mul64(a, b) == SubSeq(LimbMul(a, b), 1, Int64Limbs)

IsNegative64(a) == a[Int64Limbs] >= LimbBase \div 2

IsZero64(a) == \A k \in 1..Int64Limbs : a[k] = 0

(* the value of an int64 that is small enough to be a number of the model *)
Int64Value(a) == a[1] + LimbBase * a[2] + LimbBase * LimbBase * a[3]

----------------------------------------------------------------------------
(* _pbasis_create *)

(* for l in np.arange(d, 0, -1): c *= e - d + l *)
RECURSIVE AxisLoop(_, _, _, _)
AxisLoop(c, e, d, l) ==
    IF l < 1 THEN c
    ELSE Let(Mul64(c, Int64(e - d + l)), LAMBDA p : AxisLoop(p, e, d, l - 1))

(* cx = 1; if dx > 0: the loop *)
AxisConstant(e, d) == IF d > 0 THEN AxisLoop(Int64(1), e, d, d) ELSE Int64(1)

(* The generated lambda "lambda x, y: c*x**ex*y**ey" is the record of its  *)
(* number of arguments, its constant and its exponents.                    *)
PbasisCreate(i, j, k, dx, dy, dz) ==
    IF j = None /\ k = None THEN
        [nargs |-> 1,
         c |-> AxisConstant(i, dx),
         exps |-> <<Max(i - dx, 0)>>]
    ELSE IF k = None THEN
        Let(AxisConstant(i, dx), LAMBDA cx :
        Let(AxisConstant(j[1], dy), LAMBDA cy :
            [nargs |-> 2,
             c |-> Mul64(cx, cy),
             exps |-> <<Max(i - dx, 0), Max(j[1] - dy, 0)>>]))
    ELSE
        Let(AxisConstant(i, dx), LAMBDA cx :
        Let(AxisConstant(j[1], dy), LAMBDA cy :
        Let(AxisConstant(k[1], dz), LAMBDA cz :
        Let(Mul64(cx, cy), LAMBDA cxy :
            [nargs |-> 3,
             c |-> Mul64(cxy, cz),
             exps |-> <<Max(i - dx, 0), Max(j[1] - dy, 0),
                        Max(k[1] - dz, 0)>>]))))

----------------------------------------------------------------------------
(* _pbasis_init *)

\* the k-fold itertools.product of list(range(dim)) with itself
Diffs(dim, k) == [1..k -> 0..(dim - 1)]

AllDiffs(dim, Ndiff) == UNION {Diffs(dim, k) : k \in 0..Ndiff}

(* sum([1 for d in diff if d == a]) *)
CountAxis(diff, a) == Cardinality({n \in DOMAIN diff : diff[n] = a})

(* the pairs (i, j) of the list comprehension, in its order *)
Exponents(maxdeg) ==
    LET all == [n \in 1..((maxdeg + 1) * (maxdeg + 1)) |->
                   <<(n - 1) \div (maxdeg + 1), (n - 1) % (maxdeg + 1)>>]
        Keep(ij) == ij[1] + ij[2] <= maxdeg
    IN  SelectSeq(all, Keep)

(* the list stored under one key *)
PbasisList(maxdeg, diff) ==
    LET dx == CountAxis(diff, 0)
        dy == CountAxis(diff, 1)
        ex == Exponents(maxdeg)
    IN  List([m \in 1..Len(ex) |->
                 PbasisCreate(ex[m][1], Some(ex[m][2]), None, dx, dy, 0)])

(* one pass of the loop over k: self._pbasis[diff] = [...] for every diff *)
(* of length k, written into the table as it is at that moment            *)
InsertKeys(tab, maxdeg, dim, k) ==
    Dict([diff \in (DOMAIN tab) \cup Diffs(dim, k) |->
             IF diff \in Diffs(dim, k) THEN PbasisList(maxdeg, diff)
             ELSE tab[diff]])

RECURSIVE PbasisLoop(_, _, _, _, _)
PbasisLoop(tab, maxdeg, dim, Ndiff, k) ==
    IF k > Ndiff THEN tab
    ELSE Let(InsertKeys(tab, maxdeg, dim, k),
             LAMBDA t : PbasisLoop(t, maxdeg, dim, Ndiff, k + 1))

(* self._pbasis = {} and the loop over k in range(Ndiff + 1) *)
PbasisInit(maxdeg, dim, Ndiff) == PbasisLoop(<<>>, maxdeg, dim, Ndiff, 0)

----------------------------------------------------------------------------
(* The collaborators of ElementGlobal: the mesh, the mapping, and the      *)
(* subclass that supplies maxdeg, dim and gdof.                            *)

(* mesh.p is the sequence of vertex coordinates and mesh.t the sequence of *)
(* elements, each the tuple of its (0-based) vertex numbers.               *)
MeshSquare ==
    [p |-> <<<<0, 0>>, <<1, 0>>, <<0, 1>>, <<1, 1>>>>,
     t |-> <<<<0, 1, 2>>, <<1, 2, 3>>>>]

MeshTriangle ==
    [p |-> <<<<0, 0>>, <<2, 0>>, <<1, 3>>>>,
     t |-> <<<<0, 1, 2>>>>]

(* one quadrilateral: four nodes per element *)
MeshQuad ==
    [p |-> <<<<0, 0>>, <<1, 0>>, <<1, 1>>, <<0, 1>>>>,
     t |-> <<<<0, 1, 2, 3>>>>]

(* one degenerate triangle: its three vertices are collinear *)
MeshFlat ==
    [p |-> <<<<0, 0>>, <<1, 1>>, <<2, 2>>>>,
     t |-> <<<<0, 1, 2>>>>]

(* mesh.t.shape[1] and mesh.t.shape[0] *)
NumElements(mesh) == Len(mesh.t)

NodesPerElement(mesh) == Len(mesh.t[1])

(* np.arange(n) *)
Arange(n) == List([k \in 1..n |-> k - 1])

(* numpy's rule for one index into an axis of length n: a negative index   *)
(* counts from the end, anything outside [-n, n) is an IndexError          *)
IndexOk(n, idx) == -n <= idx /\ idx < n

Wrap(n, idx) == IF idx < 0 THEN idx + n ELSE idx

(* the element's class attributes, set by the subclass *)
ElementMaxdeg == 1

ElementDim == 2

(* a power basis function called with the coordinates x *)
RECURSIVE Monomial(_, _, _)
Monomial(exps, x, a) ==
    IF a > Len(exps) THEN 1 ELSE Pow(x[a], exps[a]) * Monomial(exps, x, a + 1)

CallFn(f, x) == Int64Value(f.c) * Monomial(f.exps, x, 1)

(* gdof of the subclass: functional j is the value at vertex j.  U maps    *)
(* each derivative key to one power basis function, v[j][e] is vertex j of *)
(* the e-th element; the result has one number per element.                *)
Gdof(U, v, e, n, j) ==
    List([el \in DOMAIN v[j + 1] |-> CallFn(U[<<>>], v[j + 1][el])])

(* mapping.F(X, tind): the affine map of each selected element applied to  *)
(* each reference point; x[el][pt] is a physical point                     *)
MappingF(mesh, X, tind) ==
    List([el \in 1..Len(tind) |->
        LET nodes == mesh.t[Wrap(NumElements(mesh), tind[el]) + 1]
            v0 == mesh.p[nodes[1] + 1]
            v1 == mesh.p[nodes[2] + 1]
            v2 == mesh.p[nodes[3] + 1]
        IN  List([pt \in 1..Len(X) |->
                <<v0[1] + (v1[1] - v0[1]) * X[pt][1] + (v2[1] - v0[1]) * X[pt][2],
                  v0[2] + (v1[2] - v0[2]) * X[pt][1] + (v2[2] - v0[2]) * X[pt][2]>>])])

----------------------------------------------------------------------------
(* np.linalg.inv on a stack of square matrices *)

Minor(M, r, c) ==
    List([a \in 1..(Len(M) - 1) |->
        List([b \in 1..(Len(M) - 1) |->
            M[IF a < r THEN a ELSE a + 1][IF b < c THEN b ELSE b + 1]])])

RECURSIVE Det(_)
RECURSIVE DetRow(_, _)
DetRow(M, c) ==
    IF c > Len(M) THEN 0
    ELSE (IF c % 2 = 1 THEN 1 ELSE -1) * M[1][c] * Det(Minor(M, 1, c))
         + DetRow(M, c + 1)

Det(M) == IF Len(M) = 0 THEN 1 ELSE DetRow(M, 1)

Cofactor(M, r, c) ==
    (IF (r + c) % 2 = 0 THEN 1 ELSE -1) * Det(Minor(M, r, c))

MatInv(M) ==
    LET d == Det(M)
    IN  List([r \in 1..Len(M) |->
            List([c \in 1..Len(M) |-> Frac(Cofactor(M, c, r), d)])])

(* raises LinAlgError when a matrix of the stack is singular *)
LinalgInv(Vs) ==
    IF \E el \in DOMAIN Vs : Det(Vs[el]) = 0
    THEN [err |-> "LinAlgError", val |-> None]
    ELSE [err |-> "none", val |-> Some(List([el \in DOMAIN Vs |-> MatInv(Vs[el])]))]

----------------------------------------------------------------------------
(* _eval_dofs *)

EvalDofs(pb, mesh, tind0) ==
    LET tind == IF tind0 = None THEN Arange(NumElements(mesh)) ELSE tind0[1]
        N == Len(pb[<<>>])
        nel == NumElements(mesh)
        \* v[itr] = mesh.p[:, mesh.t[itr, tind]]
        v == List([itr \in 1..3 |->
                 List([el \in 1..Len(tind) |->
                     mesh.p[mesh.t[Wrap(nel, tind[el]) + 1][itr] + 1]])])
        \* e[0] = .5 * (v[0] + v[1]), e[1] = .5 * (v[1] + v[2]), ...
        e == [itr \in 1..3 |->
                 [el \in 1..Len(tind) |->
                     LET a == v[IF itr = 2 THEN 2 ELSE 1][el]
                         b == v[IF itr = 1 THEN 2 ELSE 3][el]
                     IN  <<Frac(a[1] + b[1], 2), Frac(a[2] + b[2], 2)>>]]
        \* n[0] = v[0] - v[1], ..., rotated by a quarter turn; the division
        \* by the norm is left out: the modelled gdof does not read n
        n == [itr \in 1..3 |->
                 [el \in 1..Len(tind) |->
                     LET a == v[IF itr = 2 THEN 2 ELSE 1][el]
                         b == v[IF itr = 1 THEN 2 ELSE 3][el]
                     IN  <<a[2] - b[2], -(a[1] - b[1])>>]]
        U(itr) == Dict([k \in DOMAIN pb |-> pb[k][itr]])
    IN  IF <<>> \notin DOMAIN pb THEN
            \* N = len(self._pbasis[()])
            [err |-> "KeyError", val |-> None, ngdof |-> 0]
        ELSE IF \E el \in 1..Len(tind) : ~IndexOk(nel, tind[el]) THEN
            [err |-> "IndexError", val |-> None, ngdof |-> 0]
        ELSE IF NodesPerElement(mesh) = 3 THEN
            \* V[:, jtr, itr] = self.gdof(U, v, e, n, jtr)
            [err |-> "none",
             val |-> Some(List([el \in 1..Len(tind) |->
                         List([jtr \in 1..N |->
                             List([itr \in 1..N |->
                                 Gdof(U(itr), v, e, n, jtr - 1)[el]])])])),
             ngdof |-> N * N]
        ELSE
            [err |-> "NotImplementedError", val |-> None, ngdof |-> 0]

----------------------------------------------------------------------------
(* gbasis *)

(* a cache fill at every call *)
AlwaysFill(self, mapping) == TRUE

(* a cache fill whenever the cache does not have the mesh's element count *)
FillPerMesh(self, mapping) ==
    \/ self.V = None
    \/ Len(self.V[1]) # NumElements(mapping.mesh)

(* line 19: if self.V is None; nothing of the mapping is looked at *)
NeedsFill(self, mapping) == self.V = None

(* the Vandermonde matrix of the requested elements only *)
FillRequested(tind) == Some(tind)

(* line 23: self._eval_dofs(mapping.mesh) passes no tind, whatever the     *)
(* tind of the call is                                                     *)
FillTind(tind) == None

(* the cache assigned before the inversion has succeeded *)
AssignEarly(selfV, inv) == IF inv.err = "none" THEN inv.val ELSE Some(<<>>)

(* line 23: self.V = np.linalg.inv(...) assigns only if inv returns *)
AssignV(selfV, inv) == IF inv.err = "none" THEN inv.val ELSE selfV

(* line 23: construct the Vandermonde matrix from self._pbasis, invert it  *)
(* and assign it                                                           *)
FillV(self, mesh, tind) ==
    Let(EvalDofs(self.pbasis[1], mesh, FillTind(tind)), LAMBDA ed :
        IF ed.err # "none" THEN
            [V |-> self.V, pbasis |-> self.pbasis, err |-> ed.err,
             ngdof |-> ed.ngdof]
        ELSE
            Let(LinalgInv(ed.val[1]), LAMBDA inv :
                [V |-> AssignV(self.V, inv), pbasis |-> self.pbasis,
                 err |-> inv.err, ngdof |-> ed.ngdof]))

(* lines 21-23: the cache fill *)
Fill(self, D, mesh, tind) ==
    Let(PbasisInit(ElementMaxdeg, ElementDim, D), LAMBDA pb :
        FillV([V |-> self.V, pbasis |-> Some(pb)], mesh, tind))

(* line 25: V = self.V[tind] *)
SelectV(selfV, tind) ==
    List([el \in 1..Len(tind) |-> selfV[Wrap(Len(selfV), tind[el]) + 1]])

(* the transposed read V[:, i, itr] *)
CoefficientTransposed(Vsel, el, itr, i) ==
    Vsel[el][Wrap(Len(Vsel[el]), i) + 1][itr + 1]

(* line 37: V[:, itr, i], for one element *)
Coefficient(Vsel, el, itr, i) ==
    Vsel[el][itr + 1][Wrap(Len(Vsel[el][itr + 1]), i) + 1]

(* lines 34-38: the sum over the power basis, at one point of one element *)
RECURSIVE Accumulate(_, _, _, _, _, _)
Accumulate(Vsel, fns, el, i, xp, itr) ==
    IF itr >= Len(fns) THEN FInt(0)
    ELSE FAdd(FMul(Coefficient(Vsel, el, itr, i), FInt(CallFn(fns[itr + 1], xp))),
              Accumulate(Vsel, fns, el, i, xp, itr + 1))

(* one entry too few *)
HodShort(D) == D - 3

(* line 41: the length of hod *)
HodLength(D) == D - 2

(* lines 25-52 *)
Evaluate(selfV, pb, D, mesh, X, i, tind) ==
        IF \E el \in 1..Len(tind) : ~IndexOk(Len(selfV), tind[el]) THEN
            [err |-> "IndexError", result |-> None]
        ELSE IF \E el \in 1..Len(tind) : ~IndexOk(NumElements(mesh), tind[el]) THEN
            [err |-> "IndexError", result |-> None]
        ELSE IF <<>> \notin DOMAIN pb THEN
            \* line 31: N = len(self._pbasis[()])
            [err |-> "KeyError", result |-> None]
        ELSE IF ~IndexOk(Len(pb[<<>>]), i) THEN
            [err |-> "IndexError", result |-> None]
        ELSE IF ~(AllDiffs(ElementDim, D) \subseteq DOMAIN pb) THEN
            \* line 38: self._pbasis[diff]
            [err |-> "KeyError", result |-> None]
        ELSE IF HodLength(D) < 0 THEN
            [err |-> "ValueError", result |-> None]
        ELSE
            Let(SelectV(selfV, tind), LAMBDA Vsel :
            Let(MappingF(mesh, X, tind), LAMBDA x :
            Let(List([k \in 1..(D + 1) |->
                    Dict([diff \in Diffs(ElementDim, k - 1) |->
                        List([el \in 1..Len(tind) |->
                            List([pt \in 1..Len(X) |->
                                Accumulate(Vsel, pb[diff], el, i,
                                           x[el][pt], 0)])])])]), LAMBDA U :
                [err |-> "ok",
                 result |-> Some(<<[value |-> U[1][<<>>],
                                    grad |-> U[2],
                                    hess |-> U[3],
                                    hod |-> List([k \in 1..HodLength(D) |->
                                                     U[k + 3]])]>>)])))

Gbasis(self, D, mapping, X, i, tind0) ==
    Let(IF tind0 = None THEN Arange(NumElements(mapping.mesh)) ELSE tind0[1],
        LAMBDA tind :
    Let(IF NeedsFill(self, mapping) THEN Fill(self, D, mapping.mesh, tind)
        ELSE [V |-> self.V, pbasis |-> self.pbasis, err |-> "none", ngdof |-> 0],
        LAMBDA st :
        IF st.err # "none" THEN
            [V |-> st.V, pbasis |-> st.pbasis, outcome |-> st.err,
             result |-> None, gdofCalls |-> st.ngdof]
        ELSE
            Let(Evaluate(st.V[1], st.pbasis[1], D, mapping.mesh, X, i, tind),
                LAMBDA ev :
                [V |-> st.V, pbasis |-> st.pbasis, outcome |-> ev.err,
                 result |-> ev.result, gdofCalls |-> st.ngdof])))

----------------------------------------------------------------------------------------------------------------------------------------
(* The sequential specifications: one instance, any sequence of gbasis     *)
(* calls.                                                                  *)

GoodMeshes == {MeshSquare, MeshTriangle}

BadMeshes == {MeshQuad, MeshFlat}

(* reference points: the three reference vertices, or one other point *)
RefVertices == <<<<0, 0>>, <<1, 0>>, <<0, 1>>>>

Points == {RefVertices, <<<<1, 1>>>>}

BasisIndices == (-1)..ElementMaxdeg + 2

ElementSubsets ==
    {None, Some(<<0>>), Some(<<1, 0>>), Some(<<-1>>), Some(<<2>>)}

FillErrors == {"NotImplementedError", "LinAlgError"}

NoThreads == [t \in {} |-> 0]

InitInstance ==
    /\ V = None
    /\ pbasis = None
    /\ outcome = "none"
    /\ result = None
    /\ gdofCalls = 0
    /\ fillCall = None
    /\ nfail = 0

(* one call of gbasis, with its arguments drawn from the given sets *)
GbasisFrom(Ms, Xs, Is, Ts) ==
    \E mesh \in Ms, X \in Xs, i \in Is, tind \in Ts :
        \E r \in {Gbasis([V |-> V, pbasis |-> pbasis], derivatives,
                        [mesh |-> mesh], X, i, tind)} :
        LET c == [mesh |-> mesh, X |-> X, i |-> i, tind |-> tind]
        IN  /\ V' = r.V
            /\ pbasis' = r.pbasis
            /\ call' = Some(c)
            /\ outcome' = r.outcome
            /\ result' = r.result
            /\ gdofCalls' = r.gdofCalls
            /\ fillCall' = IF V = None /\ r.V # None
                           THEN Some([mesh |-> mesh, subset |-> tind # None])
                           ELSE fillCall
            /\ nfail' = IF r.outcome \in FillErrors
                        THEN (IF nfail < 2 THEN nfail + 1 ELSE nfail) ELSE 0
            /\ UNCHANGED <<derivatives, th>>

(* the class attribute derivatives = 2 *)
DefaultDerivatives == 2

(* Spec: the default derivatives = 2 *)
Init ==
    /\ derivatives = DefaultDerivatives
    /\ InitInstance
    /\ call = None
    /\ th = NoThreads

GbasisCall ==
    GbasisFrom(GoodMeshes, {RefVertices}, BasisIndices, ElementSubsets)

(* a call whose mapping refers to a mesh that the cache fill rejects *)
GbasisCallBadMesh ==
    GbasisFrom(BadMeshes, {RefVertices}, {0, ElementMaxdeg + 2},
               {None, Some(<<0>>)})

Next == GbasisCall \/ GbasisCallBadMesh

Spec == Init /\ [][Next]_vars

(* SpecDeriv: a subclass may set any derivatives >= 0 *)
InitDeriv ==
    /\ derivatives \in 0..MaxDeriv
    /\ InitInstance
    /\ call = None
    /\ th = NoThreads

GbasisCallDeriv ==
    GbasisFrom(GoodMeshes, Points, 0..ElementMaxdeg + 1,
               {None, Some(<<0>>)})

NextDeriv == GbasisCallDeriv

SpecDeriv == InitDeriv /\ [][NextDeriv]_vars

----------------------------------------------------------------------------
(* Properties of the sequential specifications *)

TheCall == call[1]

TheBundle == result[1][1]

N == Len(PbasisList(ElementMaxdeg, <<>>))

(* the tind of the latest call, with its default *)
TheTind ==
    IF TheCall.tind = None THEN Arange(NumElements(TheCall.mesh))
    ELSE TheCall.tind[1]

(* what a new instance returns for the given call *)
FirstCall(c) ==
    Gbasis([V |-> None, pbasis |-> None], derivatives, [mesh |-> c.mesh],
           c.X, c.i, c.tind)

(* the inverse Vandermonde matrices of all elements of a mesh *)
InverseOf(mesh) ==
    LinalgInv(EvalDofs(PbasisInit(ElementMaxdeg, ElementDim, derivatives),
                       mesh, None).val[1]).val[1]

(* C1: once a call has succeeded, every later successful call runs no     *)
(* cache fill: it invokes gdof zero times and leaves self.V and            *)
(* self._pbasis as they were, and a call repeated with the arguments of    *)
(* the call before it returns the same result.                             *)
C1_FillOnlyInFirstCall ==
    [][(outcome = "ok" /\ outcome' = "ok") =>
          /\ gdofCalls' = 0
          /\ V' = V
          /\ pbasis' = pbasis
          /\ (call' = call => result' = result)]_vars

C1_Witness ==
    /\ outcome = "ok"
    /\ gdofCalls = 0
    /\ V # None
    /\ TheCall.tind = Some(<<1, 0>>)

(* C2: on one mesh, a successful call returns what it would return as the  *)
(* first call on a new instance, whatever subset the filling call asked    *)
(* for, and entry e of its value is the entry of element tind[e] in the    *)
(* result over all elements.                                               *)
C2_InverseOverAllElements ==
    (outcome = "ok" /\ fillCall # None /\ fillCall[1].mesh = TheCall.mesh) =>
        /\ result = FirstCall(TheCall).result
        /\ Len(V[1]) = NumElements(TheCall.mesh)
        /\ LET all == FirstCall([TheCall EXCEPT !.tind = None]).result[1][1]
           IN  \A e \in 1..Len(TheTind) :
                   TheTind[e] >= 0 =>
                       /\ TheBundle.value[e] = all.value[TheTind[e] + 1]
                       /\ \A d \in DOMAIN all.grad :
                              TheBundle.grad[d][e] = all.grad[d][TheTind[e] + 1]

C2_Witness ==
    /\ outcome = "ok"
    /\ gdofCalls = 0
    /\ fillCall # None
    /\ fillCall[1].mesh = MeshSquare
    /\ fillCall[1].subset
    /\ TheCall.mesh = MeshSquare
    /\ TheCall.tind = None

(* C3: the basis function i that gbasis evaluates is dual to the gdof      *)
(* functionals: functional j (the value at vertex j, which is the value at *)
(* reference vertex j of each element) applied to it is 1 when j = i and 0 *)
(* otherwise, on every element.                                            *)
C3_DualBasis ==
    (/\ outcome = "ok"
     /\ fillCall[1].mesh = TheCall.mesh
     /\ TheCall.X = RefVertices
     /\ TheCall.i \in 0..(N - 1)) =>
        \A e \in 1..Len(TheTind) : \A j \in 0..(N - 1) :
            TheBundle.value[e][j + 1] = FInt(IF j = TheCall.i THEN 1 ELSE 0)

C3_Witness ==
    /\ outcome = "ok"
    /\ TheCall.mesh = MeshTriangle
    /\ fillCall[1].mesh = MeshTriangle
    /\ TheCall.X = RefVertices
    /\ TheCall.i = 1
    /\ TheBundle.value[1] = <<FInt(0), FInt(1), FInt(0)>>

(* C5: a call whose basis function index is outside [0, N), or whose tind  *)
(* has an entry outside [0, number of mesh elements), fails and returns    *)
(* nothing.                                                                *)
C5_IndexOutsideRangeFails ==
    (/\ call # None
     /\ \/ TheCall.i \notin 0..(N - 1)
        \/ \E e \in 1..Len(TheTind) :
               TheTind[e] \notin 0..(NumElements(TheCall.mesh) - 1)) =>
        (outcome # "ok" /\ result = None)

(* C6: a call whose cache fill fails returns nothing and leaves self.V     *)
(* None, and the next call with the same mesh repeats the fill attempt and *)
(* fails with the same error; a cache that is present is complete.         *)
C6_FailedFillLeavesNoCache ==
    [][/\ outcome' \in FillErrors => (V' = None /\ result' = None)
       /\ (outcome \in FillErrors /\ call'[1].mesh = TheCall.mesh) =>
              (outcome' = outcome /\ gdofCalls' = gdofCalls)
       /\ V' # None => Len(V'[1]) = NumElements(fillCall'[1].mesh)]_vars

C6_Witness ==
    /\ nfail = 2
    /\ outcome = "LinAlgError"
    /\ V = None
    /\ gdofCalls = N * N

PointShaped(a) ==
    /\ Len(a) = Len(TheTind)
    /\ \A e \in 1..Len(a) : Len(a[e]) = Len(TheCall.X)

TensorOfOrder(t, r) ==
    /\ DOMAIN t = Diffs(ElementDim, r)
    /\ \A d \in DOMAIN t : PointShaped(t[d])

C7_BundleShape ==
    (outcome = "ok") =>
        /\ Len(result[1]) = 1
        /\ PointShaped(TheBundle.value)
        /\ TensorOfOrder(TheBundle.grad, 1)
        /\ TensorOfOrder(TheBundle.hess, 2)
        /\ derivatives >= 2
        /\ Len(TheBundle.hod) = derivatives - 2
        /\ \A k \in 0..(derivatives - 3) :
               TensorOfOrder(TheBundle.hod[k + 1], k + 3)

C7_Witness ==
    /\ outcome = "ok"
    /\ derivatives = 3
    /\ Len(TheBundle.hod) = 1
    /\ TensorOfOrder(TheBundle.hod[1], 3)

----------------------------------------------------------------------------
(* SpecPbasis: _pbasis_init as a function of (maxdeg, dim, Ndiff).  The    *)
(* arguments are drawn in the initial state and held in call; the table is *)
(* left in pbasis.                                                         *)

InitPbasis ==
    /\ derivatives = DefaultDerivatives
    /\ InitInstance
    /\ th = NoThreads
    /\ \E maxdeg \in 0..MaxMaxdeg, dim \in 1..3, Ndiff \in 0..MaxNdiff :
           call = Some([maxdeg |-> maxdeg, dim |-> dim, Ndiff |-> Ndiff])

PbasisInitCall ==
    /\ pbasis = None
    /\ pbasis' = Some(PbasisInit(TheCall.maxdeg, TheCall.dim, TheCall.Ndiff))
    /\ outcome' = "ok"
    /\ UNCHANGED <<derivatives, V, call, result, gdofCalls, fillCall, nfail, th>>

NextPbasis == PbasisInitCall

SpecPbasis == InitPbasis /\ [][NextPbasis]_vars

(* the exponent tuples of length dim with total degree <= maxdeg *)
ExponentTuples(maxdeg, dim) ==
    {ex \in [1..dim -> 0..maxdeg] :
        (IF dim >= 1 THEN ex[1] ELSE 0) + (IF dim >= 2 THEN ex[2] ELSE 0)
        + (IF dim >= 3 THEN ex[3] ELSE 0) <= maxdeg}

BinomialCount(maxdeg, dim) ==
    IF dim = 1 THEN maxdeg + 1
    ELSE IF dim = 2 THEN ((maxdeg + 1) * (maxdeg + 2)) \div 2
    ELSE ((maxdeg + 1) * (maxdeg + 2) * (maxdeg + 3)) \div 6

(* C4: the table's keys are the tuples of length 0..Ndiff over [0, dim);   *)
(* every key holds N functions of dim arguments, N the number of exponent  *)
(* tuples of length dim with total degree <= maxdeg, and position m holds  *)
(* a derivative of the same monomial under every key.                      *)
C4_TableShape ==
    (pbasis # None) =>
        LET tab == pbasis[1]
            cnt == Cardinality(ExponentTuples(TheCall.maxdeg, TheCall.dim))
        IN  /\ DOMAIN tab = AllDiffs(TheCall.dim, TheCall.Ndiff)
            /\ cnt = BinomialCount(TheCall.maxdeg, TheCall.dim)
            /\ \A diff \in DOMAIN tab :
                   /\ Len(tab[diff]) = cnt
                   /\ \A m \in 1..Len(tab[diff]) :
                          /\ tab[diff][m].nargs = TheCall.dim
                          /\ \A a \in 1..TheCall.dim :
                                 tab[diff][m].exps[a] =
                                     Max(tab[<<>>][m].exps[a] - CountAxis(diff, a - 1), 0)

(* the part of C4 that the code does satisfy: the keys, and for dim = 2    *)
(* the whole claim                                                         *)
PbasisKeysAndPlane ==
    (pbasis # None) =>
        /\ DOMAIN pbasis[1] = AllDiffs(TheCall.dim, TheCall.Ndiff)
        /\ TheCall.dim = 2 => C4_TableShape

----------------------------------------------------------------------------
(* SpecCreate: _pbasis_create as a function of its arguments, drawn in the *)
(* initial state and held in call; the generated function is left in       *)
(* result.                                                                 *)

CreateInputs ==
    {[i |-> i, j |-> None, k |-> None, dx |-> dx, dy |-> 0, dz |-> 0] :
        i \in 0..MaxExp, dx \in 0..MaxDx}
    \cup
    {[i |-> i, j |-> Some(j), k |-> None, dx |-> dx, dy |-> dy, dz |-> 0] :
        i \in 0..MaxExp2, j \in 0..MaxExp2, dx \in 0..MaxDx2, dy \in 0..MaxDx2}
    \cup
    {[i |-> i, j |-> Some(j), k |-> Some(k), dx |-> dx, dy |-> dy, dz |-> dz] :
        i \in 0..1, j \in 0..1, k \in 0..1,
        dx \in 0..1, dy \in 0..1, dz \in 1..MaxDx2}

InitCreate ==
    /\ derivatives = DefaultDerivatives
    /\ InitInstance
    /\ th = NoThreads
    /\ \E in \in CreateInputs : call = Some(in)

PbasisCreateCall ==
    /\ result = None
    /\ result' = Some(PbasisCreate(TheCall.i, TheCall.j, TheCall.k,
                                   TheCall.dx, TheCall.dy, TheCall.dz))
    /\ outcome' = "ok"
    /\ UNCHANGED <<derivatives, V, pbasis, call, gdofCalls, fillCall, nfail, th>>

NextCreate == PbasisCreateCall

SpecCreate == InitCreate /\ [][NextCreate]_vars

(* The falling factorial e (e - 1) ... (e - d + 1) as an exact number: an  *)
(* unsigned limb sequence that grows with the product.                     *)
RECURSIVE FallingFactorial(_, _)
FallingFactorial(e, d) ==
    IF d = 0 THEN <<1>>
    ELSE IF e < d THEN <<0>>
    ELSE Let(FallingFactorial(e, d - 1), LAMBDA f : LimbMul(f, <<e - d + 1>>))

Limb(a, k) == IF k <= Len(a) THEN a[k] ELSE 0

(* the int64 c is the exact non-negative number a *)
Int64Is(c, a) ==
    /\ \A k \in 1..Int64Limbs : c[k] = Limb(a, k)
    /\ \A k \in (Int64Limbs + 1)..Len(a) : a[k] = 0
    /\ ~IsNegative64(c)

OptValue(o) == IF o = None THEN 0 ELSE o[1]

(* the exact constant of the derivative of the monomial *)
ExactConstant(c) ==
    Let(FallingFactorial(c.i, c.dx), LAMBDA fx :
    Let(FallingFactorial(OptValue(c.j), c.dy), LAMBDA fy :
    Let(FallingFactorial(OptValue(c.k), c.dz), LAMBDA fz :
    Let(LimbMul(fx, fy), LAMBDA fxy : LimbMul(fxy, fz)))))

ExponentSmaller(c) ==
    c.i < c.dx \/ OptValue(c.j) < c.dy \/ OptValue(c.k) < c.dz

(* C8: the constant of the generated function is the product of the        *)
(* falling factorials of its axes, it is 0 whenever an exponent is smaller *)
(* than its derivative count, and the exponents are floored at 0: the      *)
(* function is the partial derivative of the monomial.                     *)
C8_ConstantIsFallingFactorial ==
    (result # None) =>
        /\ Let(ExactConstant(TheCall), LAMBDA a : Int64Is(result[1].c, a))
        /\ ExponentSmaller(TheCall) => IsZero64(result[1].c)
        /\ result[1].exps[1] = Max(TheCall.i - TheCall.dx, 0)
        /\ TheCall.j # None =>
               result[1].exps[2] = Max(TheCall.j[1] - TheCall.dy, 0)

(* the part of C8 that the code does satisfy: the constant is 0 whenever   *)
(* an exponent is smaller than its derivative count, and it is the exact   *)
(* product whenever that product is below 2^63                             *)
ZeroWhenExponentSmaller ==
    (result # None) =>
        /\ ExponentSmaller(TheCall) => IsZero64(result[1].c)
        /\ Let(ExactConstant(TheCall), LAMBDA a :
               (\A k \in Int64Limbs..Len(a) :
                   a[k] < (IF k = Int64Limbs THEN LimbBase \div 2 ELSE 1))
               => Int64Is(result[1].c, a))

----------------------------------------------------------------------------
(* SpecConc: NThreads threads, each making one gbasis call on the same     *)
(* instance, interleaved between the statements that read or write self.V  *)
(* and self._pbasis.  There is no lock in gbasis.                          *)

Threads == 1..NThreads

ConcMapping == [mesh |-> MeshTriangle]

ConcPoints == <<<<1, 1>>>>

ConcIndex(t) == (t - 1) % N

FillPcs == {"init", "keys", "fillV"}

(* the thread found self.V absent and has not finished its cache fill *)
Filling(t) == th[t].sawNone /\ th[t].pc \in FillPcs

InitConc ==
    /\ derivatives = DefaultDerivatives
    /\ InitInstance
    /\ call = None
    /\ th = [t \in Threads |->
                [pc |-> "idle", k |-> 0, sawNone |-> FALSE, safeStart |-> FALSE,
                 Vread |-> None, outcome |-> "none", result |-> None]]

Shared == <<derivatives, call, outcome, result, gdofCalls, fillCall, nfail>>

(* line 19: the test of self.V *)
TStart(t) ==
    /\ th[t].pc = "idle"
    /\ th' = [th EXCEPT ![t].pc =
                            IF NeedsFill([V |-> V, pbasis |-> pbasis], ConcMapping)
                            THEN "init" ELSE "readV",
                        ![t].sawNone = (V = None),
                        ![t].safeStart =
                            (V # None /\ \A u \in Threads : ~Filling(u))]
    /\ UNCHANGED <<V, pbasis, Shared>>

(* line 108: self._pbasis = {} *)
TReset(t) ==
    /\ th[t].pc = "init"
    /\ pbasis' = Some(<<>>)
    /\ th' = [th EXCEPT ![t].pc = "keys", ![t].k = 0]
    /\ UNCHANGED <<V, Shared>>

(* lines 109-120: one pass of the loop over k *)
TKeys(t) ==
    /\ th[t].pc = "keys"
    /\ pbasis' = Some(InsertKeys(pbasis[1], ElementMaxdeg, ElementDim, th[t].k))
    /\ th' = [th EXCEPT ![t].k = th[t].k + 1,
                        ![t].pc = IF th[t].k = derivatives THEN "fillV" ELSE "keys"]
    /\ UNCHANGED <<V, Shared>>

(* line 23 *)
TFillV(t) ==
    /\ th[t].pc = "fillV"
    /\ \E st \in {FillV([V |-> V, pbasis |-> pbasis], ConcMapping.mesh,
                        Arange(NumElements(ConcMapping.mesh)))} :
           /\ V' = st.V
           /\ th' = [th EXCEPT ![t].pc = IF st.err = "none" THEN "readV" ELSE "done",
                               ![t].outcome = st.err]
    /\ UNCHANGED <<pbasis, Shared>>

(* line 25: the read of self.V *)
TReadV(t) ==
    /\ th[t].pc = "readV"
    /\ th' = [th EXCEPT ![t].pc = "loop", ![t].Vread = V]
    /\ UNCHANGED <<V, pbasis, Shared>>

(* lines 31-52: the reads of self._pbasis, and the result *)
TLoop(t) ==
    /\ th[t].pc = "loop"
    /\ \E ev \in {Evaluate(th[t].Vread[1], pbasis[1], derivatives,
                           ConcMapping.mesh, ConcPoints, ConcIndex(t),
                           Arange(NumElements(ConcMapping.mesh)))} :
           th' = [th EXCEPT ![t].pc = "done", ![t].outcome = ev.err,
                            ![t].result = ev.result]
    /\ UNCHANGED <<V, pbasis, Shared>>

NextConc ==
    \/ \E t \in Threads : TStart(t)
    \/ \E t \in Threads : TReset(t)
    \/ \E t \in Threads : TKeys(t)
    \/ \E t \in Threads : TFillV(t)
    \/ \E t \in Threads : TReadV(t)
    \/ \E t \in Threads : TLoop(t)

SpecConc == InitConc /\ [][NextConc]_vars

(* what each thread's call returns in a sequential run *)
SequentialResults ==
    List([t \in Threads |->
             Gbasis([V |-> None, pbasis |-> None], DefaultDerivatives,
                    ConcMapping, ConcPoints, ConcIndex(t), None).result])

SequentialResult(t) == SequentialResults[t]

FinishedAsSequential(t) ==
    th[t].pc = "done" => (th[t].outcome = "ok" /\ th[t].result = SequentialResult(t))

====
